---- MODULE Spec2Model ----
(***************************************************************************)
(* Model of the xorshift crate: the Xorshift128+, Xoroshiro128+,           *)
(* Xorshift1024* and SplitMix64 generators (next_u64, next_u32, reseed /   *)
(* from_seed, Rand::rand, jump) and the thread_rng factory of lib.rs.      *)
(*                                                                         *)
(* A u64 is modelled with its full width as the set of its set bit         *)
(* positions (a subset of 0..63): XOR is symmetric difference, a shift     *)
(* moves the positions and drops those that leave 0..63.                   *)
(***************************************************************************)
EXTENDS Integers, Sequences, FiniteSets, TLC

\* ------------------------------------------------------------------ u64

\* bits of a u64
WordBits == 64

Bit == 0 .. (WordBits - 1)

RECURSIVE Pow2(_)
Pow2(n) == IF n = 0 THEN 1 ELSE 2 * Pow2(n - 1)

\* The u64 written as four 16-bit limbs, most significant first
\* (0x8a5cd789635d2dff is U64(<<\H8a5c, \Hd789, \H635d, \H2dff>>)).
U64(limbs) ==
    {b \in Bit : (limbs[4 - (b \div 16)] \div Pow2(b % 16)) % 2 = 1}

Zero == {}

\* a ^ b
Xor(a, b) == (a \ b) \cup (b \ a)

\* a << k and a >> k on u64 (bits shifted out are lost)
Shl(a, k) == {i + k : i \in {j \in a : j + k < WordBits}}
Shr(a, k) == {i - k : i \in {j \in a : j >= k}}

\* A loop's variables hold computed values when an iteration starts:
\* Done(v) is TRUE once v has been evaluated.
Done(v) == v = v

\* Wrapping arithmetic is done on the eight bytes of a word, least
\* significant first.
ByteOf(a, j) ==
      (IF 8 * j     \in a THEN 1   ELSE 0) + (IF 8 * j + 1 \in a THEN 2   ELSE 0)
    + (IF 8 * j + 2 \in a THEN 4   ELSE 0) + (IF 8 * j + 3 \in a THEN 8   ELSE 0)
    + (IF 8 * j + 4 \in a THEN 16  ELSE 0) + (IF 8 * j + 5 \in a THEN 32  ELSE 0)
    + (IF 8 * j + 6 \in a THEN 64  ELSE 0) + (IF 8 * j + 7 \in a THEN 128 ELSE 0)

Bytes(a) == [j \in 0 .. 7 |-> ByteOf(a, j)]

\* The word with bytes v[j] % 256.
FromBytes(v) == {b \in Bit : (v[b \div 8] \div Pow2(b % 8)) % 2 = 1}

\* What is carried into byte j when the columns col are summed up.
RECURSIVE CarryInto(_, _)
CarryInto(col, j) ==
    IF j = 0 THEN 0 ELSE (col[j - 1] + CarryInto(col, j - 1)) \div 256

\* The word whose byte j is column j plus the carry from the columns below;
\* what is carried out of byte 7 is dropped (wrapping).
Carried(col) ==
    IF Done(col) THEN FromBytes([j \in 0 .. 7 |-> col[j] + CarryInto(col, j)])
    ELSE Zero

AddBytes(x, y) == [j \in 0 .. 7 |-> x[j] + y[j]]

\* a + b on Wrapping<u64>
Add(a, b) == Carried(AddBytes(Bytes(a), Bytes(b)))

\* Column k of the long multiplication of x and y: the byte products
\* x[i] * y[k - i], from i up.
RECURSIVE MulColumn(_, _, _, _)
MulColumn(x, y, k, i) ==
    IF i > k THEN 0 ELSE x[i] * y[k - i] + MulColumn(x, y, k, i + 1)

MulBytes(x, y) ==
    IF Done(x) /\ Done(y) THEN [k \in 0 .. 7 |-> MulColumn(x, y, k, 0)]
    ELSE x

\* a * c on Wrapping<u64>
Mul(a, c) == Carried(MulBytes(Bytes(a), Bytes(c)))

\* The high half of x in place of the low one (a faulty variant, used to
\* test the property of next_u32).
AsU32High(x) == Shr(x, 32)

\* `x as u32`
AsU32(x) == {i \in x : i < 32}

\* The two state words XORed pairwise (s0 ^= self.0[0]; s1 ^= self.0[1]).
XorVec(a, b) == [i \in DOMAIN a |-> Xor(a[i], b[i])]

ZeroVec(n) == [i \in 0 .. (n - 1) |-> Zero]

\* (mutant: `for _ in 0..=count`)
JumpIterationsInclusive(count) == count + 1

\* Number of iterations of `for _ in 0..count`.
JumpIterations(count) == count

\* ------------------------------------------------------ xorshift128.rs

\* JUMP with its two words in the other order (a faulty variant, used to
\* test the property of the jump distance).
X128_JUMP_Swapped == [i \in 0 .. 1 |->
    IF i = 0 THEN U64(<<\H121f, \Hd215, \H5c47, \H2f96>>)
             ELSE U64(<<\H8a5c, \Hd789, \H635d, \H2dff>>)]

X128_JUMP == [i \in 0 .. 1 |->
    IF i = 0 THEN U64(<<\H8a5c, \Hd789, \H635d, \H2dff>>)
             ELSE U64(<<\H121f, \Hd215, \H5c47, \H2f96>>)]

\* next_u64 with the roles of the two words exchanged (a faulty variant,
\* used to test the property of the transition).
X128NextRolesSwapped(s) ==
    LET s1 == s[1]
        s0 == s[0]
        t  == Xor(s1, Shl(s1, 23))
    IN  [i \in 0 .. 1 |->
            IF i = 0 THEN s0
                     ELSE Xor(Xor(Xor(t, s0), Shr(t, 18)), Shr(s0, 5))]

\* State after Xorshift128::next_u64 on state s (s[0], s[1]).
X128Next(s) ==
    LET s1 == s[0]
        s0 == s[1]
        t  == Xor(s1, Shl(s1, 23))
    IN  [i \in 0 .. 1 |->
            IF i = 0 THEN s0
                     ELSE Xor(Xor(Xor(t, s0), Shr(t, 18)), Shr(s0, 5))]

\* The loop with next_u64 called only at the set bits of JUMP (a faulty
\* variant, used to test the property of the scan).
RECURSIVE X128JumpWordSkipping(_, _, _, _, _)
X128JumpWordSkipping(jw, b, st, acc, n) ==
    IF b = WordBits \/ ~Done(st) \/ ~Done(acc) \/ ~Done(n)
    THEN [st |-> st, acc |-> acc, n |-> n]
    ELSE X128JumpWordSkipping(jw, b + 1,
                              IF b \in jw THEN X128Next(st) ELSE st,
                              IF b \in jw THEN XorVec(acc, st) ELSE acc,
                              IF b \in jw THEN n + 1 ELSE n)

\* The loop `for b in 0..64` of Xorshift128::jump on the word jw of JUMP:
\* st is self.0, acc is (s0, s1), n counts the next_u64 calls.
RECURSIVE X128JumpWord(_, _, _, _, _)
X128JumpWord(jw, b, st, acc, n) ==
    IF b = WordBits \/ ~Done(st) \/ ~Done(acc) \/ ~Done(n)
    THEN [st |-> st, acc |-> acc, n |-> n]
    ELSE X128JumpWord(jw, b + 1, X128Next(st),
                      IF b \in jw THEN XorVec(acc, st) ELSE acc, n + 1)

\* The loop `for i in 0..JUMP.len()`, c = [st, acc, n].
RECURSIVE X128JumpWords(_, _)
X128JumpWords(i, c) ==
    IF i = 2 \/ ~Done(c) THEN c
    ELSE X128JumpWords(i + 1, X128JumpWord(X128_JUMP[i], 0, c.st, c.acc, c.n))

\* The end of one iteration of `for _ in 0..count`: self.0 := (s0, s1).
X128JumpEnd(c) == [st |-> c.acc, n |-> c.n]

X128JumpOnce(c) ==
    X128JumpEnd(X128JumpWords(0, [st |-> c.st, acc |-> ZeroVec(2), n |-> c.n]))

\* The loop `for _ in 0..count`, c = [st, n]: st is self.0 and n the
\* number of next_u64 calls made so far.
RECURSIVE X128JumpLoop(_, _)
X128JumpLoop(i, c) ==
    IF i = 0 \/ ~Done(c) THEN c ELSE X128JumpLoop(i - 1, X128JumpOnce(c))

X128JumpResult(c) == [rng |-> c.st, calls |-> c.n, t |-> <<>>]

\* Xorshift128::jump(count): the state it leaves and the number of next_u64
\* calls it made (t: it has no accumulator array).
X128Jump(st, count) ==
    X128JumpResult(X128JumpLoop(JumpIterations(count), [st |-> st, n |-> 0]))

\* ----------------------------------------------------- xoroshiro128.rs

XORO_JUMP == [i \in 0 .. 1 |->
    IF i = 0 THEN U64(<<\Hbeac, \H0467, \Heba5, \Hfacb>>)
             ELSE U64(<<\Hd86b, \H048b, \H86aa, \H9922>>)]

\* A rotation that loses the bits shifted out at the top (a faulty
\* variant, used to test the property of the rotation).
rotlShiftOnly(x, k) == Shl(x, k)

\* (x << k) | (x >> (64 - k))
rotl(x, k) == Shl(x, k) \cup Shr(x, WordBits - k)

\* State after Xoroshiro128::next_u64 on state s.
XoroNext(s) ==
    LET s0 == s[0]
        s1 == Xor(s[1], s[0])
    IN  [i \in 0 .. 1 |->
            IF i = 0 THEN Xor(Xor(rotl(s0, 55), s1), Shl(s1, 14))
                     ELSE rotl(s1, 36)]

RECURSIVE XoroJumpWord(_, _, _, _, _)
XoroJumpWord(jw, b, st, acc, n) ==
    IF b = WordBits \/ ~Done(st) \/ ~Done(acc) \/ ~Done(n)
    THEN [st |-> st, acc |-> acc, n |-> n]
    ELSE XoroJumpWord(jw, b + 1, XoroNext(st),
                      IF b \in jw THEN XorVec(acc, st) ELSE acc, n + 1)

RECURSIVE XoroJumpWords(_, _)
XoroJumpWords(i, c) ==
    IF i = 2 \/ ~Done(c) THEN c
    ELSE XoroJumpWords(i + 1, XoroJumpWord(XORO_JUMP[i], 0, c.st, c.acc, c.n))

XoroJumpEnd(c) == [st |-> c.acc, n |-> c.n]

XoroJumpOnce(c) ==
    XoroJumpEnd(XoroJumpWords(0, [st |-> c.st, acc |-> ZeroVec(2), n |-> c.n]))

\* The loop `for _ in 0..count`, c = [st, n]: st is self.0 and n the
\* number of next_u64 calls made so far.
RECURSIVE XoroJumpLoop(_, _)
XoroJumpLoop(i, c) ==
    IF i = 0 \/ ~Done(c) THEN c ELSE XoroJumpLoop(i - 1, XoroJumpOnce(c))

XoroJumpResult(c) == [rng |-> c.st, calls |-> c.n, t |-> <<>>]

XoroJump(st, count) ==
    XoroJumpResult(XoroJumpLoop(JumpIterations(count), [st |-> st, n |-> 0]))

\* ----------------------------------------------------- xorshift1024.rs

STATE_SIZE == 16

X1024_JUMP == <<
    U64(<<\H8424, \H2f96, \Heca9, \Hc41d>>),
    U64(<<\Ha3c6, \H5b87, \H76f9, \H6855>>),
    U64(<<\H5b34, \Ha39f, \H070b, \H5837>>),
    U64(<<\H4489, \Haffc, \He4f3, \H1a1e>>),
    U64(<<\H2ffe, \Heb0a, \H4831, \H6f40>>),
    U64(<<\Hdc2d, \H9891, \Hfe68, \Hc022>>),
    U64(<<\H3659, \H132b, \Hb12f, \Hea70>>),
    U64(<<\Haac1, \H7d8e, \Hfa43, \Hcab8>>),
    U64(<<\Hc4cb, \H8155, \H9098, \H9b13>>),
    U64(<<\H5ee9, \H7528, \H3d71, \Hc93b>>),
    U64(<<\H6915, \H48c8, \H6c1b, \Hd540>>),
    U64(<<\H7910, \Hc41d, \H10a1, \He6a5>>),
    U64(<<\H0b5f, \Hc645, \H63b3, \He2a8>>),
    U64(<<\H047f, \H7684, \He9fc, \H949d>>),
    U64(<<\Hb991, \H81f2, \Hd8f6, \H85ca>>),
    U64(<<\H2846, \H00e3, \Hf30e, \H38c3>>) >>

\* static EMPTY
X1024_EMPTY == [state |-> ZeroVec(STATE_SIZE), p |-> 0]

\* next_u64 with the two right shifts exchanged (a faulty variant, used to
\* test the property of the transition).
X1024NextShiftsSwapped(g) ==
    LET s0 == g.state[g.p]
        p1 == (g.p + 1) % STATE_SIZE
        s1 == Xor(g.state[p1], Shl(g.state[p1], 31))
    IN  [state |-> [g.state EXCEPT
                      ![p1] = Xor(Xor(Xor(s1, s0), Shr(s1, 30)), Shr(s0, 11))],
         p     |-> p1]

\* Generator after Xorshift1024::next_u64 on g = [state, p].
X1024Next(g) ==
    LET s0 == g.state[g.p]
        p1 == (g.p + 1) % STATE_SIZE
        s1 == Xor(g.state[p1], Shl(g.state[p1], 31))
    IN  [state |-> [g.state EXCEPT
                      ![p1] = Xor(Xor(Xor(s1, s0), Shr(s1, 11)), Shr(s0, 30))],
         p     |-> p1]

\* `for j in 0..16 { t[j] ^= s[(j + p) & 15]; }`
X1024Accumulate(t, s, p) ==
    [j \in 0 .. (STATE_SIZE - 1) |-> Xor(t[j], s[(j + p) % STATE_SIZE])]

\* `for j in 0..16 { s[(j + p) & 15] = t[j]; }`
X1024WriteBack(s, t, p) ==
    [k \in 0 .. (STATE_SIZE - 1) |->
        t[(k + STATE_SIZE - p) % STATE_SIZE]]

\* The loop `for b in 0..64` of Xorshift1024::jump on the word jw of JUMP:
\* g is self, s is the local `let mut s = self.state` (a copy of the
\* array), p the local copy of self.p, t the accumulator and n the number
\* of next_u64 calls made so far.
RECURSIVE X1024JumpWord(_, _, _, _, _, _, _)
X1024JumpWord(jw, b, g, s, p, t, n) ==
    IF b = WordBits \/ ~Done(g) \/ ~Done(t) \/ ~Done(n)
    THEN [g |-> g, t |-> t, n |-> n]
    ELSE X1024JumpWord(jw, b + 1, X1024Next(g), s, p,
                       IF b \in jw THEN X1024Accumulate(t, s, p) ELSE t,
                       n + 1)

\* The loop `for i in 0..JUMP.len()`, c = [g, t, n].
RECURSIVE X1024JumpWords(_, _, _, _)
X1024JumpWords(i, c, s, p) ==
    IF i = Len(X1024_JUMP) \/ ~Done(c) THEN c
    ELSE X1024JumpWords(i + 1,
            X1024JumpWord(X1024_JUMP[i + 1], 0, c.g, s, p, c.t, c.n), s, p)

\* The end of one iteration of `for _ in 0..count`: t of c = [g, t, n] is
\* written back into the local s; self (g) is not assigned.
X1024JumpEnd(c, s, p) ==
    [g |-> c.g, s |-> X1024WriteBack(s, c.t, p), t |-> c.t, n |-> c.n]

\* The loop `for _ in 0..count`, c = [g, s, t, n]: each iteration starts
\* from a zeroed t.
RECURSIVE X1024JumpLoop(_, _, _)
X1024JumpLoop(i, c, p) ==
    IF i = 0 \/ ~Done(c) THEN c
    ELSE X1024JumpLoop(i - 1,
            X1024JumpEnd(
                X1024JumpWords(0, [g |-> c.g, t |-> ZeroVec(STATE_SIZE),
                                   n |-> c.n],
                               c.s, p),
                c.s, p),
            p)

\* What the loop leaves: rng is self, s the local array, t the accumulator
\* of the last iteration.
X1024JumpResult(c) ==
    [rng |-> c.g, s |-> c.s, t |-> c.t, calls |-> c.n]

\* Xorshift1024::jump(count)
X1024Jump(g, count) ==
    X1024JumpResult(
        X1024JumpLoop(JumpIterations(count),
                      [g |-> g, s |-> g.state, t |-> ZeroVec(STATE_SIZE),
                       n |-> 0],
                      g.p))

\* ------------------------------------------------ values of next_u64

\* Xorshift128::next_u64: `let result = s0 + s1;` with s1 = self.0[0] and
\* s0 = self.0[1]
X128Out(s) == Add(s[1], s[0])

\* Xoroshiro128::next_u64: `let result = s0 + s1;`
XoroOut(s) == Add(s[0], s[1])

\* 1181783497276652981_u64
X1024_MULT == U64(<<\H1066, \H89d4, \H5497, \Hfdb5>>)

\* `(w(self.state[self.p]) * w(1181783497276652981_u64)).0` in the state g
\* that next_u64 has made.
X1024Result(g) == Mul(g.state[g.p], X1024_MULT)

\* Xorshift1024::next_u64: the value returned from state g.
X1024Out(g) == X1024Result(X1024Next(g))

\* ------------------------------------------------------- splitmix64.rs

SM_GAMMA == U64(<<\H9e37, \H79b9, \H7f4a, \H7c15>>)
SM_MUL1 == U64(<<\Hbf58, \H476d, \H1ce4, \He5b9>>)
SM_MUL2 == U64(<<\H94d0, \H49bb, \H1331, \H11eb>>)

\* z ^ (z >> k)
XorShr(z, k) == Xor(z, Shr(z, k))

\* The three mixing rounds of SplitMix64::next_u64 on the new state z.
SplitMixMix(z) ==
    XorShr(Mul(XorShr(Mul(XorShr(z, 30), SM_MUL1), 27), SM_MUL2), 31)

\* State after SplitMix64::next_u64 (the state is one u64):
\* `let mut z = w(self.0) + w(0x9E3779B97F4A7C15_u64); self.0 = z.0;`
SplitMixNext(z) == Add(z, SM_GAMMA)

\* The mix of the state before the addition (a faulty variant, used to
\* test the property of the value returned).
SplitMixOutStale(z) == SplitMixMix(z)

\* SplitMix64::next_u64: the value returned from state z.
SplitMixOut(z) == SplitMixMix(SplitMixNext(z))

\* SplitMix64::reseed and from_seed: the state is the seed word.
SplitMixReseed(z, seed) == seed
SplitMixFromSeed(seed) == seed

\* ------------------------------------------- the tests' reference values
\* `seed` and `t_vals` of tests::test in each generator's file ("calculated
\* from reference implementation"), in hexadecimal.

\* xorshift128.rs: let seed: u64 = 1477776990746309507;
X128_TEST_SEED == U64(<<\H1482, \H1e57, \Heead, \Hf383>>)

X128_T_VALS == <<
    U64(<<\H2904, \H3caf, \Hdd5b, \He706>>),
    U64(<<\H3fd5, \H682e, \H1b8c, \Hd7da>>),
    U64(<<\H40cf, \Hdec2, \H0d9d, \H4f94>>),
    U64(<<\Heb0e, \Hfbe5, \Hd20a, \He921>>),
    U64(<<\H8944, \H8d2d, \H635c, \H689d>>),
    U64(<<\Hd2f7, \H83d2, \Hccf2, \H1394>>),
    U64(<<\Hd4f9, \Hd9d6, \Ha1ad, \H8162>>),
    U64(<<\H16a6, \H439f, \H0789, \H3fc7>>),
    U64(<<\H2ed3, \H42a9, \Hfe53, \H78ef>>),
    U64(<<\He681, \H590a, \H6837, \H53fc>>),
    U64(<<\H8d44, \H675b, \H9825, \Ha9c2>>),
    U64(<<\H002f, \Ha967, \Hc708, \H6080>>),
    U64(<<\Hbe50, \H3fe3, \H17d8, \H0181>>),
    U64(<<\H85b9, \Hec9e, \H9f32, \He2b5>>),
    U64(<<\Hb8ee, \H3ad7, \H79d7, \He40b>>),
    U64(<<\Hd9cb, \H719e, \H0ca1, \H3236>>),
    U64(<<\Haa4b, \H9419, \H6df6, \H63c5>>),
    U64(<<\H259b, \H4e3f, \H5945, \Haa9c>>),
    U64(<<\Hae7d, \Hd0c6, \H2542, \H2dd4>>),
    U64(<<\Hab04, \H3465, \H8df7, \Hbe4e>>),
    U64(<<\He2f2, \H71c6, \H237d, \H08e2>>),
    U64(<<\H8e06, \H3cc4, \H4aa5, \H1585>>),
    U64(<<\Hc725, \H98a7, \Hf30c, \Ha766>>),
    U64(<<\Hdc0f, \Hee34, \H98ab, \Hfb03>>),
    U64(<<\H8537, \H1b19, \H6195, \H61fc>>),
    U64(<<\H8141, \H13bd, \Hf96f, \H8598>>),
    U64(<<\H6a2c, \H24e2, \H5710, \H0e79>>),
    U64(<<\H08c9, \Hf318, \H1deb, \Hc3b3>>),
    U64(<<\H13e0, \Hd92e, \H0121, \H29d6>>),
    U64(<<\H9b5c, \Hab26, \H273a, \Hcdbb>>),
    U64(<<\H1e7d, \H7473, \H6d61, \Hc941>>),
    U64(<<\Hf426, \Hdb2d, \Hef09, \H7853>>),
    U64(<<\Haf64, \Ha844, \H0d61, \H0f42>>),
    U64(<<\H3d02, \H3cc1, \H753c, \H428c>>),
    U64(<<\He461, \H0430, \H5587, \Hb55f>>),
    U64(<<\H12ab, \H51c5, \Ha0db, \H5e69>>),
    U64(<<\H30b3, \Hba6c, \Ha9d6, \H3c1d>>),
    U64(<<\Hfd06, \Hd9d8, \H7eac, \H4abc>>),
    U64(<<\H9434, \Had68, \Hdd70, \H2a7c>>),
    U64(<<\H8203, \Hea3c, \H78ed, \H96f9>>),
    U64(<<\H43eb, \H4d25, \Hda98, \H5897>>),
    U64(<<\H1b0a, \Hab31, \Hc8b5, \Hc6b5>>),
    U64(<<\Hfe18, \Hba51, \H109c, \Ha7bf>>),
    U64(<<\H42d6, \H70f0, \Ha2b6, \H96d7>>),
    U64(<<\H9b94, \H1527, \Hd19a, \Hec8e>>),
    U64(<<\Haf07, \H0247, \Hf168, \H3366>>),
    U64(<<\Ha0c8, \H91b8, \Hc760, \H9b27>>),
    U64(<<\H0d21, \H5895, \H69da, \Hdb45>>),
    U64(<<\H89e6, \H4e00, \H3219, \H6009>>),
    U64(<<\H4500, \H19ca, \Hcf17, \H6c64>>)
    >>

\* xoroshiro128.rs: let seed: u64 = 1477776328140003287;
XORO_TEST_SEED == U64(<<\H1482, \H1dbd, \Ha844, \H17d7>>)

XORO_T_VALS == <<
    U64(<<\H2904, \H3b7b, \H5088, \H2fae>>),
    U64(<<\Heb8a, \H410e, \Hded4, \H220b>>),
    U64(<<\H6b7e, \H545a, \H09dd, \H9907>>),
    U64(<<\Hb462, \H06d4, \H79e9, \Hf691>>),
    U64(<<\H4373, \H883b, \Hdaf3, \H3436>>),
    U64(<<\H791a, \Hcc23, \Hd1c9, \H55aa>>),
    U64(<<\H44f0, \H2725, \H7670, \Hd95c>>),
    U64(<<\H71c8, \H9dc5, \H1c5b, \H6c9e>>),
    U64(<<\H8489, \Hec78, \Hb464, \H022b>>),
    U64(<<\H455e, \He2ea, \H6c5b, \Hfe88>>),
    U64(<<\Hbbc6, \Hb450, \H38f1, \H371b>>),
    U64(<<\H437d, \Hef5d, \Hd6c3, \H4c17>>),
    U64(<<\H5a28, \H1073, \Ha0e5, \H4146>>),
    U64(<<\H576f, \H5e36, \Hcd28, \H95ce>>),
    U64(<<\Hb428, \H3706, \Hbf6a, \Hcc6e>>),
    U64(<<\Hb1f3, \Hf86b, \Hc847, \Hca59>>),
    U64(<<\H26d0, \H0781, \H9897, \H08f3>>),
    U64(<<\H7833, \H886e, \H4d14, \H8710>>),
    U64(<<\H9ed8, \H515e, \H411c, \Hf2cf>>),
    U64(<<\H18da, \H63fc, \Hb47c, \H0a11>>),
    U64(<<\H22df, \H75d8, \H0fa4, \H85a1>>),
    U64(<<\Heb62, \Hda22, \H3c5a, \H0dbb>>),
    U64(<<\He997, \H0118, \H75c0, \H1520>>),
    U64(<<\H18f9, \H8937, \H92c8, \Ha6d8>>),
    U64(<<\H39bf, \He485, \He2a4, \H2300>>),
    U64(<<\Ha276, \Hb965, \Hce9c, \H1c70>>),
    U64(<<\Haf19, \Hd807, \H1d0d, \H029c>>),
    U64(<<\H769f, \He816, \H4ac2, \H1b47>>),
    U64(<<\H9328, \H3e2c, \Hf72f, \He145>>),
    U64(<<\H2543, \H8f1f, \H3121, \H7797>>),
    U64(<<\Ha16c, \H8de4, \Ha479, \H4756>>),
    U64(<<\Hf7fb, \H756c, \H73ba, \Hd5cd>>),
    U64(<<\H1c08, \He058, \Hdbce, \H45c5>>),
    U64(<<\He5be, \Hd62b, \Hb0cf, \Hecb0>>),
    U64(<<\H7f69, \He5d7, \H2689, \Hc9d9>>),
    U64(<<\H8432, \H0e43, \He2a2, \Hb27e>>),
    U64(<<\Hafdd, \H28e9, \He6da, \H4bf8>>),
    U64(<<\H0ffb, \H1957, \H5090, \Ha48b>>),
    U64(<<\H3fd3, \H2528, \H4e6c, \H67da>>),
    U64(<<\H0313, \He3c8, \H5df4, \H1760>>),
    U64(<<\H11be, \H53d2, \H6114, \H7953>>),
    U64(<<\H5de3, \Hfa62, \H8039, \Hb5e2>>),
    U64(<<\Hf8c8, \H4dbe, \He145, \H4119>>),
    U64(<<\H204a, \H35d8, \Hb999, \Hd827>>),
    U64(<<\H3198, \H7921, \H5901, \H466b>>),
    U64(<<\Ha818, \He0d7, \H378a, \H9408>>),
    U64(<<\Ha5c8, \H1722, \Ha312, \H8d50>>),
    U64(<<\Hfdb4, \Hf6af, \H64fe, \H67f4>>),
    U64(<<\Hf32c, \He0ca, \Hc06c, \H3acc>>),
    U64(<<\H5d32, \H84c0, \H0db3, \H7f89>>)
    >>

\* xorshift1024.rs: let seed: u64 = 1477777179826044140;
X1024_TEST_SEED == U64(<<\H1482, \H1e83, \Hf4b5, \Hbcec>>)

X1024_T_VALS == <<
    U64(<<\Hc74a, \H9ebf, \H05cf, \H3618>>),
    U64(<<\H91ee, \Ha1c0, \H6d60, \H60a2>>),
    U64(<<\Haa62, \H6452, \Hf65d, \H9f00>>),
    U64(<<\H52eb, \Hb4c3, \H7f67, \Hcedc>>),
    U64(<<\Hc74a, \H9ebf, \H05cf, \H3618>>),
    U64(<<\H91ee, \Ha1c0, \H6d60, \H60a2>>),
    U64(<<\Haa62, \H6452, \Hf65d, \H9f00>>),
    U64(<<\H52eb, \Hb4c3, \H7f67, \Hcedc>>),
    U64(<<\Hc74a, \H9ebf, \H05cf, \H3618>>),
    U64(<<\H91ee, \Ha1c0, \H6d60, \H60a2>>),
    U64(<<\Haa62, \H6452, \Hf65d, \H9f00>>),
    U64(<<\H52eb, \Hb4c3, \H7f67, \Hcedc>>),
    U64(<<\Hc74a, \H9ebf, \H05cf, \H3618>>),
    U64(<<\H91ee, \Ha1c0, \H6d60, \H60a2>>),
    U64(<<\Haa62, \H6452, \Hf65d, \H9f00>>),
    U64(<<\H52eb, \Hb4c3, \H7f67, \Hcedc>>),
    U64(<<\He033, \Hb6bd, \H4a89, \Hb8be>>),
    U64(<<\Heb8e, \Ha881, \Hb4b0, \H87f8>>),
    U64(<<\Ha646, \Hdc3a, \H5754, \H2304>>),
    U64(<<\Hb7c2, \He80c, \H9249, \H23dd>>),
    U64(<<\H1df4, \H7d6a, \H3d65, \H331a>>),
    U64(<<\H2ee0, \Hd68a, \H802b, \H2e61>>),
    U64(<<\Haa62, \H6452, \Hf65d, \H9f00>>),
    U64(<<\H52eb, \Hb4c3, \H7f67, \Hcedc>>),
    U64(<<\He033, \Hb6bd, \H4a89, \Hb8be>>),
    U64(<<\Heb8e, \Ha881, \Hb4b0, \H87f8>>),
    U64(<<\Ha646, \Hdc3a, \H5754, \H2304>>),
    U64(<<\Hb7c2, \He80c, \H9249, \H23dd>>),
    U64(<<\H1df4, \H7d6a, \H3d65, \H331a>>),
    U64(<<\H2ee0, \Hd68a, \H802b, \H2e61>>),
    U64(<<\Haa62, \H6452, \Hf65d, \H9f00>>),
    U64(<<\H52eb, \Hb4c3, \H7f67, \Hcedc>>),
    U64(<<\H359a, \H45a7, \H604a, \Ha75a>>),
    U64(<<\H093f, \H8bf1, \H53fb, \H2eb2>>),
    U64(<<\H223f, \H0c55, \H0150, \H6d59>>),
    U64(<<\Hfac7, \H8d5e, \Hf58a, \Hee8c>>),
    U64(<<\Hc42a, \Hb28c, \H06b8, \Hf315>>),
    U64(<<\H2ee0, \Hd68a, \H802b, \H2e61>>),
    U64(<<\Haa62, \H6452, \Hf65d, \H9f00>>),
    U64(<<\H52eb, \Hb4c3, \H7f67, \Hcedc>>),
    U64(<<\H359a, \H45a7, \H604a, \Ha75a>>),
    U64(<<\H093f, \H8bf1, \H53fb, \H2eb2>>),
    U64(<<\H223f, \H0c55, \H0150, \H6d59>>),
    U64(<<\Hfac7, \H8d5e, \Hf58a, \Hee8c>>),
    U64(<<\Hc42a, \Hb28c, \H06b8, \Hf315>>),
    U64(<<\H2ee0, \Hd68a, \H802b, \H2e61>>),
    U64(<<\Haa62, \H6452, \Hf65d, \H9f00>>),
    U64(<<\H52eb, \Hb4c3, \H7f67, \Hcedc>>),
    U64(<<\H0b48, \H2955, \H6f8c, \H0a9b>>),
    U64(<<\Hcf61, \H5a05, \H465d, \H926c>>)
    >>

\* splitmix64.rs: let seed: u64 = 1477776061723855037;
SM_TEST_SEED == U64(<<\H1482, \H1d7f, \Ha0a0, \H48bd>>)

SM_T_VALS == <<
    U64(<<\H1b8c, \Hfae9, \H2bc8, \H29e2>>),
    U64(<<\H2958, \H83a2, \H0d7e, \H72f3>>),
    U64(<<\Hbb82, \H3b1f, \H6575, \Ha666>>),
    U64(<<\H75cc, \Ha1d6, \Hff12, \Hfb6b>>),
    U64(<<\Hd222, \H424f, \Hdbfb, \H2a67>>),
    U64(<<\Hed37, \H2473, \H13d2, \H7ae7>>),
    U64(<<\He373, \H4ceb, \H6a21, \H3c07>>),
    U64(<<\Hb6df, \H3de5, \Hca76, \H9094>>),
    U64(<<\H9676, \H69b9, \Hee16, \Hdbb4>>),
    U64(<<\Hed3d, \H03f1, \He062, \Ha6b2>>),
    U64(<<\H2e4e, \H109e, \H9d86, \H90dc>>),
    U64(<<\H8650, \Ha0c6, \H2e7b, \H9f80>>),
    U64(<<\H9a34, \H4a11, \H932e, \H236b>>),
    U64(<<\H6d63, \H4182, \H5fbd, \Hb66a>>),
    U64(<<\H4f3b, \H4639, \H7517, \H114d>>),
    U64(<<\H6c3e, \H095e, \Hdaa0, \H384a>>),
    U64(<<\H4010, \H773b, \Hecb2, \H997e>>),
    U64(<<\H3afe, \Hdc99, \Hf48f, \Hf807>>),
    U64(<<\H6cc1, \Hc104, \H2391, \Hf5fc>>),
    U64(<<\H4623, \H6d3f, \Hee50, \H0650>>),
    U64(<<\Hb34a, \H8617, \Heb33, \Hefc6>>),
    U64(<<\He4ac, \H11d9, \H5768, \He87d>>),
    U64(<<\H471e, \H79ae, \Hfbe0, \H1665>>),
    U64(<<\Hfb2e, \H88c0, \He80c, \H67ea>>),
    U64(<<\H6986, \H1206, \H3970, \Hf57e>>),
    U64(<<\H583e, \H1cdc, \H1307, \H87a7>>),
    U64(<<\H2a26, \H37e0, \H247b, \H6f9e>>),
    U64(<<\H2ca7, \H090e, \Hbe05, \H4c6d>>),
    U64(<<\H8a34, \H68d0, \H7187, \Hbdf3>>),
    U64(<<\H52ca, \Hcad5, \Hcb40, \Hbf92>>),
    U64(<<\Ha68b, \H81d3, \Ha416, \Hf218>>),
    U64(<<\Hb088, \H8958, \Hfd85, \H650e>>),
    U64(<<\H0368, \He33a, \H4bf8, \H7280>>),
    U64(<<\H73e6, \H0894, \Hbf11, \H3e4c>>),
    U64(<<\Hc78b, \H9899, \Hb749, \Hf3ea>>),
    U64(<<\H4e7c, \H2186, \H8133, \H85ea>>),
    U64(<<\H4c70, \H75a1, \H66e6, \Ha2a5>>),
    U64(<<\H762c, \H102e, \H62ee, \H2ef7>>),
    U64(<<\H5742, \Hbaf6, \H7732, \Habfc>>),
    U64(<<\Hcfa7, \H6b46, \H8d2b, \Hc771>>),
    U64(<<\H3263, \H2d90, \H91c5, \H2c0c>>),
    U64(<<\H74e1, \Hf7d6, \Ha3d8, \Haa0e>>),
    U64(<<\H9278, \H5cd0, \Hd2b3, \He0a9>>),
    U64(<<\H96e0, \Hc569, \H1cf9, \H2248>>),
    U64(<<\H782b, \H2f87, \H29ea, \Hdba4>>),
    U64(<<\H82bb, \H6948, \H5b84, \Hf816>>),
    U64(<<\H8f78, \H5d1f, \H4ba3, \H5c7c>>),
    U64(<<\Hbb8e, \H3981, \H7d87, \H8d75>>),
    U64(<<\Hcb1d, \H5913, \H6f5e, \Hf3a1>>),
    U64(<<\Hd5fd, \Hc0ab, \H6774, \Hea8d>>)
    >>

\* ------------------------------------------------------------- seeding

Kinds == {"Xorshift128", "Xoroshiro128", "Xorshift1024"}

\* Number of state words of a generator type.
StateWords(k) == IF k = "Xorshift1024" THEN STATE_SIZE ELSE 2

\* static EMPTY of each type
X128_EMPTY == ZeroVec(2)
XORO_EMPTY == ZeroVec(2)

\* The seed length below which Xorshift128::reseed panics
\* (`if seed.len() < 2`), and likewise for the other two.
X128MinSeed == 2
XoroMinSeed == 2
X1024MinSeed == 16

\* reseed of a two-word generator: the length check, then
\* self.0[0] = seed[0]; self.0[1] = seed[1] with Rust's bounds-checked
\* indexing (seed[i] of the slice is seed[i + 1] of the sequence).
Reseed2(st, seed, minLen) ==
    IF Len(seed) < minLen
    THEN [rng |-> st, panic |-> "InsufficientSeedLength"]
    ELSE IF Len(seed) < 1
    THEN [rng |-> st, panic |-> "IndexOutOfBounds"]
    ELSE IF Len(seed) < 2
    THEN [rng |-> [st EXCEPT ![0] = seed[1]], panic |-> "IndexOutOfBounds"]
    ELSE [rng |-> [i \in 0 .. 1 |-> seed[i + 1]], panic |-> "none"]

X128Reseed(st, seed) == Reseed2(st, seed, X128MinSeed)
XoroReseed(st, seed) == Reseed2(st, seed, XoroMinSeed)

\* (mutant: the length check comes after the loop)
X1024ReseedLateCheck(g, seed) ==
    [rng   |-> [g EXCEPT !.state =
                    [i \in 0 .. (STATE_SIZE - 1) |->
                        IF i < Len(seed) THEN seed[i + 1] ELSE g.state[i]]],
     panic |-> IF Len(seed) > STATE_SIZE THEN "IndexOutOfBounds"
               ELSE IF Len(seed) < 16 THEN "InsufficientSeedLength"
               ELSE "none"]

\* Xorshift1024::reseed: the length check, then
\* `for (index, element) in seed.iter().enumerate()
\*      { self.state[index] = *element; }`
\* which writes every element of the seed in turn and panics at the first
\* index outside the 16-word array; self.p is not assigned.
X1024Reseed(g, seed) ==
    IF Len(seed) < X1024MinSeed
    THEN [rng |-> g, panic |-> "InsufficientSeedLength"]
    ELSE [rng   |-> [g EXCEPT !.state =
                        [i \in 0 .. (STATE_SIZE - 1) |->
                            IF i < Len(seed) THEN seed[i + 1] ELSE g.state[i]]],
          panic |-> IF Len(seed) > STATE_SIZE THEN "IndexOutOfBounds"
                                              ELSE "none"]

Empty(k) ==
    CASE k = "Xorshift128"  -> X128_EMPTY
      [] k = "Xoroshiro128" -> XORO_EMPTY
      [] k = "Xorshift1024" -> X1024_EMPTY

\* reseed on an instance of type k.
ReseedOf(k, g, seed) ==
    CASE k = "Xorshift128"  -> X128Reseed(g, seed)
      [] k = "Xoroshiro128" -> XoroReseed(g, seed)
      [] k = "Xorshift1024" -> X1024Reseed(g, seed)

\* from_seed: `let mut rng = EMPTY; rng.reseed(seed); rng`
FromSeedOf(k, seed) == ReseedOf(k, Empty(k), seed)

\* next_u64 and jump on an instance of type k.
NextOf(k, g) ==
    CASE k = "Xorshift128"  -> X128Next(g)
      [] k = "Xoroshiro128" -> XoroNext(g)
      [] k = "Xorshift1024" -> X1024Next(g)
      [] k = "SplitMix64"   -> SplitMixNext(g)

\* What next_u64 returns when called on an instance of type k in state g.
OutOf(k, g) ==
    CASE k = "Xorshift128"  -> X128Out(g)
      [] k = "Xoroshiro128" -> XoroOut(g)
      [] k = "Xorshift1024" -> X1024Out(g)
      [] k = "SplitMix64"   -> SplitMixOut(g)

\* `self.next_u64() as u32`: what next_u32 returns.
Out32Of(k, g) == AsU32(OutOf(k, g))

NoAcc == <<>>

JumpOf(k, g, count) ==
    CASE k = "Xorshift128"  -> X128Jump(g, count)
      [] k = "Xoroshiro128" -> XoroJump(g, count)
      [] k = "Xorshift1024" -> X1024Jump(g, count)

\* ----------------------------------------------------------- bounds

\* Seeds tried are up to MaxExtra words longer than the state.
MaxExtra == 1
\* jump counts tried are 0 .. MaxJump.
MaxJump == 1
\* Seeding and jump operations per run, and next_u64 calls per run.
MaxOps == 2
MaxCalls == 1

\* Two seed words: 0x0123456789abcdef and 0x8000000000000001.
SeedBases == {U64(<<\H0123, \H4567, \H89ab, \Hcdef>>),
              U64(<<\H8000, 0, 0, 1>>)}

\* A seed of n distinct words made from the word base.
SeedGen(base, n) == [i \in 1 .. n |-> rotl(base, i - 1)]

SeedLens(k) == {0, StateWords(k) - 1} \cup
               (StateWords(k) .. (StateWords(k) + MaxExtra))

SeedsOf(k) == {SeedGen(b, n) : b \in SeedBases, n \in SeedLens(k)}

\* ------------------------------------------- one generator instance

VARIABLES
    kind,     \* type of the instance, "none" before the first from_seed
    rng,      \* the instance: [u64; 2], or [state, p] for Xorshift1024
    last,     \* the last operation: its name, argument, the instance
              \* before it, how it ended, the next_u64 calls it made and
              \* (Xorshift1024::jump) the accumulator t it computed
    nOps,     \* seeding and jump operations so far
    nCalls    \* next_u64 calls so far

genVars == <<kind, rng, last, nOps, nCalls>>

\* ------------------------------- two copies of one generator (Copy)

VARIABLES
    cKind,    \* type of the copied generator
    c0,       \* the generator both copies were made from
    ca,       \* first copy: jumped any number of times
    cb,       \* second copy: jumped once
    ja,       \* sum of the counts of the jumps made on ca
    jb,       \* count of the jump made on cb
    na        \* number of jump calls made on ca

cpVars == <<cKind, c0, ca, cb, ja, jb, na>>

\* ------------------------------------------------ thread_rng (lib.rs)

VARIABLES
    tKind,    \* the type T the callers ask for
    once,     \* lazy_static's Once of THREAD_RNG_STATE: "incomplete",
              \* "running", "complete" or "poisoned"
    cache,    \* THREAD_RNG_STATE, <<>> until initialised
    samples,  \* number of times the entropy source was asked (StdRng::new)
    counter,  \* THREAD_RNG_INSTANCE
    pc,       \* where each thread is in its thread_rng call
    seen,     \* the words each thread seeded its generator from
    got,      \* the value fetch_add returned to each thread
    ret,      \* each thread's local rng, returned when pc is "done"
    walker,   \* a returned generator the caller draws numbers from
    wFrom,    \* the thread it was returned to, 0 when there is none yet
    wCalls    \* the next_u64 calls made on it

thVars == <<tKind, once, cache, samples, counter, pc, seen, got, ret,
            walker, wFrom, wCalls>>

\* --------------------------------- next_u64 as a map of the state bits

VARIABLES
    pKind,    \* the generator type (one of the two with a 128-bit state)
    pk,       \* pM is the map of 2^pk consecutive next_u64 calls
    pM,       \* for each state bit, the state that 2^pk calls make of the
              \* state with that bit alone (as a set of state bits)
    pS,       \* the state jump was called on, <<>> before the call
    pJumps,   \* the count jump was called with, 0 before the call
    pJumped   \* the state jump left

pVars == <<pKind, pk, pM, pS, pJumps, pJumped>>

\* ------------------------------------- a generator numbers are drawn from

VARIABLES
    oKind,    \* its type, SplitMix64 included
    oSeed,    \* the seed it was last seeded with
    oRng,     \* its state
    oN,       \* the next_u64 / next_u32 calls made on it since it was seeded
    oLast     \* the last operation on it: the state before, the value
              \* returned, and for Rand::rand the generator made

oVars == <<oKind, oSeed, oRng, oN, oLast>>

vars == <<genVars, cpVars, thVars, pVars, oVars>>

\* The variables the operations on the single instance leave alone.
genFrame == <<cpVars, thVars, pVars, oVars>>
\* The variables the operations on the two copies leave alone.
cpFrame == <<genVars, thVars, pVars, oVars>>
\* The variables thread_rng and its callers leave alone.
thFrame == <<genVars, cpVars, pVars, oVars>>

NoOp == [op |-> "none", kind |-> "none", arg |-> <<>>, pre |-> <<>>,
         panic |-> "none", calls |-> 0, t |-> NoAcc]

InitGen ==
    /\ kind = "none"
    /\ rng = <<>>
    /\ last = NoOp
    /\ nOps = 0
    /\ nCalls = 0

\* No copies are made in the runs of the single instance.
IdleCopies ==
    /\ cKind = "none"
    /\ c0 = <<>> /\ ca = <<>> /\ cb = <<>>
    /\ ja = 0 /\ jb = 0 /\ na = 0

\* No thread calls thread_rng in the runs of the single instance.
IdleThreads ==
    /\ tKind = "none"
    /\ once = "incomplete" /\ cache = <<>> /\ samples = 0 /\ counter = 0
    /\ pc = <<>> /\ seen = <<>> /\ got = <<>> /\ ret = <<>>
    /\ walker = <<>> /\ wFrom = 0 /\ wCalls = 0

\* No map of next_u64 is built in the runs of the single instance.
IdlePow ==
    /\ pKind = "none" /\ pk = 0 /\ pM = <<>>
    /\ pS = <<>> /\ pJumps = 0 /\ pJumped = <<>>

\* No numbers are drawn in the runs of the single instance.
IdleOut ==
    /\ oKind = "none" /\ oSeed = <<>> /\ oRng = <<>> /\ oN = 0
    /\ oLast = <<>>

Init == InitGen /\ IdleCopies /\ IdleThreads /\ IdlePow /\ IdleOut

\* A panic ends the run.
Running == last.panic = "none"

\* The instance and the record of the operation once a seeding or a jump
\* has ended with r = [rng, panic] or r = [rng, calls, t].
Seeded(op, k, seed, r) ==
    /\ last' = [op |-> op, kind |-> k, arg |-> seed, pre |-> rng,
                panic |-> r.panic, calls |-> 0, t |-> NoAcc]
    /\ nOps' = nOps + 1
    /\ UNCHANGED <<nCalls, genFrame>>

Jumped(count, r) ==
    /\ rng' = r.rng
    /\ last' = [op |-> "jump", kind |-> kind, arg |-> <<count>>,
                pre |-> rng, panic |-> "none", calls |-> r.calls, t |-> r.t]
    /\ nOps' = nOps + 1
    /\ UNCHANGED <<kind, nCalls, genFrame>>

\* let rng: K = SeedableRng::from_seed(seed): the binding is made only
\* when from_seed returns.
Bound(k, r) ==
    IF r.panic = "none" THEN kind' = k /\ rng' = r.rng
                        ELSE UNCHANGED <<kind, rng>>

FromSeed(k, seed) ==
    /\ Running /\ nOps < MaxOps
    /\ Seeded("from_seed", k, seed, FromSeedOf(k, seed))
    /\ Bound(k, FromSeedOf(k, seed))

\* rng.reseed(seed): what reseed wrote before a panic stays written.
Reseed(seed) ==
    /\ Running /\ nOps < MaxOps /\ kind # "none"
    /\ Seeded("reseed", kind, seed, ReseedOf(kind, rng, seed))
    /\ rng' = ReseedOf(kind, rng, seed).rng
    /\ UNCHANGED kind

\* rng.next_u64()
NextU64 ==
    /\ Running /\ nCalls < MaxCalls /\ kind # "none"
    /\ rng' = NextOf(kind, rng)
    /\ last' = [op |-> "next_u64", kind |-> kind, arg |-> <<>>,
                pre |-> rng, panic |-> "none", calls |-> 1, t |-> NoAcc]
    /\ nCalls' = nCalls + 1
    /\ UNCHANGED <<kind, nOps, genFrame>>

\* rng.jump(count)
Jump(count) ==
    /\ Running /\ nOps < MaxOps /\ kind # "none"
    /\ Jumped(count, JumpOf(kind, rng, count))

Next ==
    \/ \E k \in Kinds : \E seed \in SeedsOf(k) : FromSeed(k, seed)
    \/ \E seed \in SeedsOf(kind) : Reseed(seed)
    \/ NextU64
    \/ \E count \in 0 .. MaxJump : Jump(count)

Spec == Init /\ [][Next]_vars

\* ------------------------------------------------------ SpecCopies
\* `let mut r = rng; r.jump(i);` (lib.rs, crate documentation): a generator
\* is Copy, and each copy is jumped on its own.

\* The largest sum of jump counts applied to a copy.
MaxTotal == 2

\* next_u64 calls made on the generator before it is copied.
WarmUps == {0, 3}

RECURSIVE NextTimes(_, _, _)
NextTimes(k, g, n) ==
    IF n = 0 \/ ~Done(g) THEN g ELSE NextTimes(k, NextOf(k, g), n - 1)

\* The generators copied: seeded with a seed of the state's length and
\* advanced by next_u64.
StartsOf(k) ==
    {NextTimes(k, FromSeedOf(k, SeedGen(b, StateWords(k))).rng, w) :
        b \in SeedBases, w \in WarmUps}

InitCopies ==
    /\ cKind \in Kinds
    /\ c0 \in StartsOf(cKind)
    /\ ca = c0 /\ cb = c0
    /\ ja = 0 /\ jb = 0 /\ na = 0

\* ca.jump(count)
JumpA(count) ==
    /\ ja + count <= MaxTotal
    /\ ca' = JumpOf(cKind, ca, count).rng
    /\ ja' = ja + count
    /\ na' = na + 1
    /\ UNCHANGED <<cKind, c0, cb, jb, cpFrame>>

\* cb.jump(count), once
JumpB(count) ==
    /\ jb = 0
    /\ cb' = JumpOf(cKind, cb, count).rng
    /\ jb' = count
    /\ UNCHANGED <<cKind, c0, ca, ja, na, cpFrame>>

NextCopies ==
    \/ \E count \in 1 .. MaxTotal : JumpA(count)
    \/ \E count \in 1 .. MaxTotal : JumpB(count)

\* The two copies are the only thing that moves in these runs.
InitCopiesOnly ==
    InitCopies /\ InitGen /\ IdleThreads /\ IdlePow /\ IdleOut

SpecCopies == InitCopiesOnly /\ [][NextCopies]_vars

\* ------------------------------------------------------ SpecThread
\* Threads that each call thread_rng::<T>() once.

\* Number of threads.
NThreads == 2

Threads == 1 .. NThreads

\* What the entropy source may deliver: `r.gen_iter::<u64>().take(16)`.
EntropySeeds == {SeedGen(b, 16) : b \in SeedBases}

InitThreads ==
    /\ tKind \in Kinds
    /\ once = "incomplete" /\ cache = <<>> /\ samples = 0
    /\ counter = 0
    /\ pc = [t \in Threads |-> "start"]
    /\ seen = [t \in Threads |-> <<>>]
    /\ got = [t \in Threads |-> -1]
    /\ ret = [t \in Threads |-> <<>>]
    /\ walker = <<>> /\ wFrom = 0 /\ wCalls = 0

\* A cache without the Once: every thread that gets there runs the
\* initialiser, whatever the others did (a faulty variant, used to test the
\* properties of the cache).
BeginInitUnguarded(t) ==
    /\ pc[t] = "start"
    /\ once' = "running"
    /\ pc' = [pc EXCEPT ![t] = "init"]
    /\ UNCHANGED <<tKind, cache, samples, counter, seen, got, ret,
                   walker, wFrom, wCalls, thFrame>>

\* `*THREAD_RNG_STATE` by the first thread to get there: Once::call_once
\* lets it run the initialiser and makes the others wait.
BeginInit(t) ==
    /\ pc[t] = "start" /\ once = "incomplete"
    /\ once' = "running"
    /\ pc' = [pc EXCEPT ![t] = "init"]
    /\ UNCHANGED <<tKind, cache, samples, counter, seen, got, ret,
                   walker, wFrom, wCalls, thFrame>>

\* The initialiser: `Ok(mut r) => r.gen_iter::<u64>().take(16).collect()`
InitOk(t, words) ==
    /\ pc[t] = "init"
    /\ samples' = samples + 1
    /\ cache' = words
    /\ once' = "complete"
    /\ pc' = [pc EXCEPT ![t] = "seed"]
    /\ UNCHANGED <<tKind, counter, seen, got, ret, walker, wFrom, wCalls,
                   thFrame>>

\* The initialiser: `Err(e) => panic!(..)`; the Once is left poisoned.
InitErr(t) ==
    /\ pc[t] = "init"
    /\ samples' = samples + 1
    /\ once' = "poisoned"
    /\ pc' = [pc EXCEPT ![t] = "panicked"]
    /\ UNCHANGED <<tKind, cache, counter, seen, got, ret, walker, wFrom,
                   wCalls, thFrame>>

\* `*THREAD_RNG_STATE` once the initialiser has ended: the reference to the
\* cached Vec, or a panic when the Once is poisoned.
Deref(t) ==
    /\ pc[t] = "start" /\ once \in {"complete", "poisoned"}
    /\ pc' = [pc EXCEPT ![t] = IF once = "complete" THEN "seed"
                                                   ELSE "panicked"]
    /\ UNCHANGED <<tKind, once, cache, samples, counter, seen, got, ret,
                   walker, wFrom, wCalls, thFrame>>

\* What from_seed on the cached words leaves in thread t.
SeedFrom(t, r) ==
    /\ pc' = [pc EXCEPT ![t] = IF r.panic = "none" THEN "fetch"
                                                   ELSE "panicked"]
    /\ ret' = [ret EXCEPT ![t] = IF r.panic = "none" THEN r.rng ELSE <<>>]

\* `let mut rng: T = SeedableRng::from_seed(&(*THREAD_RNG_STATE)[..]);`
SeedStep(t) ==
    /\ pc[t] = "seed"
    /\ seen' = [seen EXCEPT ![t] = cache]
    /\ SeedFrom(t, FromSeedOf(tKind, cache))
    /\ UNCHANGED <<tKind, once, cache, samples, counter, got, walker,
                   wFrom, wCalls, thFrame>>

\* A plain load in place of the fetch-and-add (a faulty variant, used to
\* test the properties of the counter).
FetchOnly(t) ==
    /\ pc[t] = "fetch"
    /\ got' = [got EXCEPT ![t] = counter]
    /\ pc' = [pc EXCEPT ![t] = "jump"]
    /\ UNCHANGED <<tKind, once, cache, samples, counter, seen, ret, walker,
                   wFrom, wCalls, thFrame>>

\* `(*THREAD_RNG_INSTANCE).fetch_add(1, Ordering::SeqCst)`
FetchAdd(t) ==
    /\ pc[t] = "fetch"
    /\ got' = [got EXCEPT ![t] = counter]
    /\ counter' = counter + 1
    /\ pc' = [pc EXCEPT ![t] = "jump"]
    /\ UNCHANGED <<tKind, once, cache, samples, seen, ret, walker, wFrom,
                   wCalls, thFrame>>

\* `rng.jump(..); rng`
JumpStep(t) ==
    /\ pc[t] = "jump"
    /\ ret' = [ret EXCEPT ![t] = JumpOf(tKind, ret[t], got[t]).rng]
    /\ pc' = [pc EXCEPT ![t] = "done"]
    /\ UNCHANGED <<tKind, once, cache, samples, counter, seen, got,
                   walker, wFrom, wCalls, thFrame>>

NextThread ==
    \E t \in Threads :
        \/ BeginInit(t)
        \/ \E words \in EntropySeeds : InitOk(t, words)
        \/ InitErr(t)
        \/ Deref(t)
        \/ SeedStep(t)
        \/ FetchAdd(t)
        \/ JumpStep(t)

\* The threads are the only thing that moves in these runs.
InitThreadsOnly ==
    InitThreads /\ InitGen /\ IdleCopies /\ IdlePow /\ IdleOut

SpecThread == InitThreadsOnly /\ [][NextThread]_vars

\* ------------------------------------------------------ SpecStream
\* The callers of thread_rng use what it returned: once every call has
\* ended, one of the returned generators is drawn from.

\* next_u64 calls made on the returned generator.
MaxWalk == 1024

AllEnded == \A t \in Threads : pc[t] \in {"done", "panicked"}

\* `let mut r: T = thread_rng();` in thread t
StartWalk(t) ==
    /\ AllEnded /\ pc[t] = "done" /\ wFrom = 0
    /\ walker' = ret[t]
    /\ wFrom' = t
    /\ wCalls' = 0
    /\ UNCHANGED <<tKind, once, cache, samples, counter, pc, seen, got,
                   ret, thFrame>>

\* `r.next_u64()`
Walk ==
    /\ wFrom # 0 /\ wCalls < MaxWalk
    /\ walker' = NextOf(tKind, walker)
    /\ wCalls' = wCalls + 1
    /\ UNCHANGED <<tKind, once, cache, samples, counter, pc, seen, got,
                   ret, wFrom, thFrame>>

NextStream ==
    \/ NextThread
    \/ \E t \in Threads : StartWalk(t)
    \/ Walk

SpecStream == InitThreadsOnly /\ [][NextStream]_vars

\* --------------------------------------------------------- SpecPow
\* How far one jump goes.  next_u64 of the two 128-bit generators is made
\* of ^, << , >> and rotl only, so the state after n calls is the xor of
\* what n calls make of each set bit of the state.  The run doubles n from
\* 1 to 2^JumpLog2 and then calls jump.

\* "Equivalent to 2^64 calls to next_u64()"
JumpLog2 == 64

\* Up to 2^MaxDirect calls the doubled map is compared with the calls made
\* one by one.
MaxDirect == 6

\* Jump counts tried.
MaxPowJump == 2

PowKinds == {"Xorshift128", "Xoroshiro128"}

StateBit == 0 .. (2 * WordBits - 1)

\* A 128-bit state as the set of its set bits, and back.
StateBits(g) == g[0] \cup {b + WordBits : b \in g[1]}
StateOf(S) == [w \in 0 .. 1 |-> {b \in Bit : (b + WordBits * w) \in S}]

\* For each state bit j, the bits i whose image under M has bit j set.
Rows(M) == [j \in StateBit |-> {i \in StateBit : j \in M[i]}]

\* What the calls mapped by M make of the state with bits S: the xor, over
\* the bits i of S, of M[i].  R is Rows(M).
ApplyRows(R, S) == {j \in StateBit : Cardinality(S \cap R[j]) % 2 = 1}

Apply(M, S) == ApplyRows(Rows(M), S)

\* One next_u64 call, bit by bit.
NextMap(k) == [i \in StateBit |-> StateBits(NextOf(k, StateOf({i})))]

\* Twice the calls of M.
TwiceRows(M, R) ==
    IF Done(R) THEN [i \in StateBit |-> ApplyRows(R, M[i])] ELSE M

Twice(M) == TwiceRows(M, Rows(M))

RECURSIVE ApplyRowsTimes(_, _, _)
ApplyRowsTimes(R, S, n) ==
    IF n = 0 \/ ~Done(S) \/ ~Done(R) THEN S
    ELSE ApplyRowsTimes(R, ApplyRows(R, S), n - 1)

ApplyTimes(M, S, n) == ApplyRowsTimes(Rows(M), S, n)

\* The states jump is called on: every state with one bit set, and the
\* seeded ones.
PowStarts(k) ==
    {StateOf({i}) : i \in StateBit}
        \cup {FromSeedOf(k, SeedGen(b, 2)).rng : b \in SeedBases}

InitPow ==
    /\ pKind \in PowKinds
    /\ pk = 0
    /\ pM = NextMap(pKind)
    /\ pS = <<>> /\ pJumps = 0 /\ pJumped = <<>>

\* The map of twice as many next_u64 calls.
Double ==
    /\ pk < JumpLog2 /\ pJumps = 0
    /\ pM' = Twice(pM)
    /\ pk' = pk + 1
    /\ UNCHANGED <<pKind, pS, pJumps, pJumped,
                   genVars, cpVars, thVars, oVars>>

\* `rng.jump(count)` on a generator in state g.
JumpFrom(g, count) ==
    /\ pk = JumpLog2 /\ pJumps = 0
    /\ pS' = g
    /\ pJumps' = count
    /\ pJumped' = JumpOf(pKind, g, count).rng
    /\ UNCHANGED <<pKind, pk, pM, genVars, cpVars, thVars, oVars>>

NextPow ==
    \/ Double
    \/ \E g \in PowStarts(pKind), count \in 1 .. MaxPowJump :
           JumpFrom(g, count)

\* The map of next_u64 is the only thing that moves in these runs.
InitPowOnly ==
    InitPow /\ InitGen /\ IdleCopies /\ IdleThreads /\ IdleOut

SpecPow == InitPowOnly /\ [][NextPow]_vars

\* --------------------------------------------------------- SpecOut
\* One generator of any of the four types, seeded and then drawn from with
\* next_u64 and next_u32; other generators are made from it with Rand::rand.

\* Calls of next_u64 / next_u32 on the generator (t_vals has 50 values).
MaxDraws == 50

\* Rand::rand takes the generator as its source after at most MaxWarm calls.
MaxWarm == 3

AllKinds == Kinds \cup {"SplitMix64"}

\* `seed` of the type's tests::test
TestSeedOf(k) ==
    CASE k = "Xorshift128"  -> X128_TEST_SEED
      [] k = "Xoroshiro128" -> XORO_TEST_SEED
      [] k = "Xorshift1024" -> X1024_TEST_SEED
      [] k = "SplitMix64"   -> SM_TEST_SEED

\* `t_vals` of the type's tests::test
TestValsOf(k) ==
    CASE k = "Xorshift128"  -> X128_T_VALS
      [] k = "Xoroshiro128" -> XORO_T_VALS
      [] k = "Xorshift1024" -> X1024_T_VALS
      [] k = "SplitMix64"   -> SM_T_VALS

\* The seed of the type's tests::test: `[seed; 2]`, `[seed; 16]`, or the
\* word itself for SplitMix64.
TestSeeding(k) ==
    IF k = "SplitMix64" THEN TestSeedOf(k)
    ELSE [i \in 1 .. StateWords(k) |-> TestSeedOf(k)]

\* The seeds tried: the test's and those made of the seed words.
OutSeeds(k) ==
    {TestSeeding(k)} \cup
        (IF k = "SplitMix64" THEN SeedBases
         ELSE {SeedGen(b, StateWords(k)) : b \in SeedBases})

\* from_seed of type k (the seeds tried are long enough: no panic).
SeededOf(k, seed) ==
    IF k = "SplitMix64" THEN SplitMixFromSeed(seed)
    ELSE FromSeedOf(k, seed).rng

OutOp(op, pre, out) ==
    [op |-> op, pre |-> pre, out |-> out, key |-> <<>>,
     madeKind |-> "none", made |-> <<>>]

InitOut ==
    /\ oKind \in AllKinds
    /\ oSeed \in OutSeeds(oKind)
    /\ oRng = SeededOf(oKind, oSeed)
    /\ oN = 0
    /\ oLast = OutOp("from_seed", <<>>, Zero)

\* `rng.next_u64()`
OutNextU64 ==
    /\ oN < MaxDraws
    /\ oRng' = NextOf(oKind, oRng)
    /\ oLast' = OutOp("next_u64", oRng, OutOf(oKind, oRng))
    /\ oN' = oN + 1
    /\ UNCHANGED <<oKind, oSeed, genVars, cpVars, thVars, pVars>>

\* `rng.next_u32()`
OutNextU32 ==
    /\ oN < MaxDraws
    /\ oRng' = NextOf(oKind, oRng)
    /\ oLast' = OutOp("next_u32", oRng, Out32Of(oKind, oRng))
    /\ oN' = oN + 1
    /\ UNCHANGED <<oKind, oSeed, genVars, cpVars, thVars, pVars>>

\* `rng.reseed(seed)` on a SplitMix64
OutReseed(seed) ==
    /\ oKind = "SplitMix64"
    /\ oN > 0
    /\ oRng' = SplitMixReseed(oRng, seed)
    /\ oSeed' = seed
    /\ oN' = 0
    /\ oLast' = OutOp("reseed", oRng, Zero)
    /\ UNCHANGED <<oKind, genVars, cpVars, thVars, pVars>>

\* A draw that leaves the source where it was (a faulty variant, used to
\* test the property of Rand::rand).
RandWordRepeated(k, c) ==
    [rng |-> c.rng, key |-> Append(c.key, OutOf(k, c.rng))]

\* `*word = other.gen();`
RandWord(k, c) ==
    [rng |-> NextOf(k, c.rng), key |-> Append(c.key, OutOf(k, c.rng))]

\* `for word in key.iter_mut() { *word = other.gen(); }`: gen::<u64>() is
\* next_u64 of the source.  c.rng is the source, c.key the words drawn.
RECURSIVE RandKey(_, _, _)
RandKey(k, n, c) ==
    IF n = 0 \/ ~Done(c) THEN c ELSE RandKey(k, n - 1, RandWord(k, c))

\* What Rand::rand of type b leaves: the source advanced, the generator
\* made by `SeedableRng::from_seed(&key[..])`.
RandDone(b, pre, c) ==
    /\ oRng' = c.rng
    /\ oLast' = [op |-> "rand", pre |-> pre, out |-> Zero, key |-> c.key,
                 madeKind |-> b, made |-> FromSeedOf(b, c.key).rng]

\* `let made: B = Rand::rand(&mut rng);` for a type b of Kinds
OutRand(b) ==
    /\ oN <= MaxWarm
    /\ RandDone(b, oRng, RandKey(oKind, StateWords(b),
                                 [rng |-> oRng, key |-> <<>>]))
    /\ oN' = oN + StateWords(b)
    /\ UNCHANGED <<oKind, oSeed, genVars, cpVars, thVars, pVars>>

NextOut ==
    \/ OutNextU64
    \/ OutNextU32
    \/ \E seed \in OutSeeds(oKind) : OutReseed(seed)
    \/ \E b \in Kinds : OutRand(b)

\* The generator drawn from is the only thing that moves in these runs.
InitOutOnly ==
    InitOut /\ InitGen /\ IdleCopies /\ IdleThreads /\ IdlePow

SpecOut == InitOutOnly /\ [][NextOut]_vars

\* ------------------------------------------------- properties (Spec)

\* The state words of an instance of type k.
WordsOf(k, g) == IF k = "Xorshift1024" THEN g.state ELSE g

Seeding == last.op \in {"from_seed", "reseed"}

\* The first StateWords(k) words of a seed.
Prefix(k, seed) == SubSeq(seed, 1, StateWords(k))

\* The instance the last seeding operation started from.
SeedTarget == IF last.op = "from_seed" THEN Empty(last.kind) ELSE last.pre

\* C1: when Xorshift1024::jump(1) returns, it has called next_u64 once per
\* bit of JUMP (1024 calls) and the generator's state is the accumulator:
\* state[(j + p) mod 16] = t[j] for every j in 0..15.
C1_JumpInstallsAccumulator ==
    (last.op = "jump" /\ last.kind = "Xorshift1024" /\ last.arg = <<1>>)
        => /\ last.calls = Len(X1024_JUMP) * WordBits
           /\ \A j \in 0 .. (STATE_SIZE - 1) :
                rng.state[(j + last.pre.p) % STATE_SIZE] = last.t[j]

\* C2: from_seed and reseed with a seed of the state's length or longer
\* succeed, copy the first N words positionally and ignore the rest: the
\* instance is the one the first N words alone give.
C2_LongSeedAccepted ==
    (Seeding /\ Len(last.arg) >= StateWords(last.kind))
        => /\ last.panic = "none"
           /\ \A i \in 0 .. (StateWords(last.kind) - 1) :
                WordsOf(last.kind, rng)[i] = last.arg[i + 1]
           /\ rng = ReseedOf(last.kind, SeedTarget,
                             Prefix(last.kind, last.arg)).rng

\* C3: a reseed of Xorshift1024 that returns leaves p = 0 and
\* state[i] = seed[i], the instance from_seed(seed) gives.
C3_ReseedResetsIndex ==
    (last.op = "reseed" /\ last.kind = "Xorshift1024" /\ last.panic = "none")
        => /\ rng.p = 0
           /\ \A i \in 0 .. (STATE_SIZE - 1) : rng.state[i] = last.arg[i + 1]
           /\ rng = FromSeedOf("Xorshift1024", last.arg).rng

\* C6: from_seed and reseed with fewer words than the state has end in the
\* insufficient-seed-length panic, bind no generator and leave the instance
\* (every state word, and p) as it was.
C6_ShortSeedRejected ==
    (Seeding /\ Len(last.arg) < StateWords(last.kind))
        => /\ last.panic = "InsufficientSeedLength"
           /\ rng = last.pre

C6_Witness ==
    /\ last.op = "reseed" /\ last.kind = "Xorshift1024"
    /\ Len(last.arg) = STATE_SIZE - 1
    /\ last.panic = "InsufficientSeedLength"
    /\ rng.p # 0

\* C8: jump(0) calls next_u64 zero times and leaves every state word (and
\* p) unchanged.
C8_JumpZeroIsNoOp ==
    (last.op = "jump" /\ last.arg = <<0>>)
        => /\ last.calls = 0
           /\ rng = last.pre

C8_Witness ==
    /\ last.op = "jump" /\ last.arg = <<0>>
    /\ last.kind = "Xorshift1024"
    /\ rng.p # 0
    /\ rng = last.pre

\* The JUMP constant of a type with two state words.
JumpWordsOf(k) == IF k = "Xorshift128" THEN X128_JUMP ELSE XORO_JUMP

\* The scan of C17 from bit number pos of the 128 bits of JUMP (word
\* pos \div 64, bit pos % 64): c.st is the generator's state, c.acc the two
\* accumulators, c.n the next_u64 calls made.
RECURSIVE ScanFrom(_, _, _)
ScanFrom(k, pos, c) ==
    IF pos = 2 * WordBits \/ ~Done(c) THEN c
    ELSE ScanFrom(k, pos + 1,
                  [st  |-> NextOf(k, c.st),
                   acc |-> IF (pos % WordBits)
                                  \in JumpWordsOf(k)[pos \div WordBits]
                           THEN XorVec(c.acc, c.st) ELSE c.acc,
                   n   |-> c.n + 1])

ScanOf(k, g) == ScanFrom(k, 0, [st |-> g, acc |-> ZeroVec(2), n |-> 0])

\* C17: Xorshift128::jump(1) and Xoroshiro128::jump(1): two accumulators
\* start at 0; the bits of JUMP are scanned word 0 then word 1, bit 0 up to
\* bit 63; at a set bit the current state words are XORed into the
\* accumulators; next_u64 is called once at every bit, 128 calls in all; at
\* the end the state is replaced by the accumulators.
C17_JumpScan ==
    (last.op = "jump" /\ last.arg = <<1>>
        /\ last.kind \in {"Xorshift128", "Xoroshiro128"})
        => /\ last.calls = 2 * WordBits
           /\ rng = ScanOf(last.kind, last.pre).acc
           /\ ScanOf(last.kind, last.pre).n = last.calls

C17_Witness ==
    /\ last.op = "jump" /\ last.arg = <<1>>
    /\ last.kind = "Xorshift128"
    /\ last.calls = 128
    /\ rng # last.pre
    /\ rng # ScanOf(last.kind, last.pre).st

\* ------------------------------------------- properties (SpecCopies)

\* C7: jumps compose additively: a copy jumped by counts that sum to n is
\* in the same state (all state words, and p) as a copy jumped once by n;
\* jump(1) twice equals jump(2) once.
C7_JumpAdditive == (jb # 0 /\ ja = jb) => ca = cb

C7_Witness ==
    /\ cKind = "Xorshift1024" /\ c0.p # 0
    /\ na = 2 /\ ja = 2 /\ jb = 2
    /\ ca = cb /\ ca # c0

\* ------------------------------ properties (SpecThread, SpecStream)

\* The threads whose fetch_add has been done.
Fetched == {t \in Threads : got[t] >= 0}

\* C4: the streams of two generators returned by two thread_rng calls do
\* not overlap: the state of one is not reached from the state of the
\* other by next_u64 calls (up to MaxWalk of them).
C4_StreamsDisjoint ==
    wFrom # 0 =>
        \A u \in Threads \ {wFrom} : pc[u] = "done" => walker # ret[u]

\* C5: each call gets its jump count from one fetch-and-add of the counter:
\* the counts handed out are pairwise distinct and are exactly
\* 0 .. (number of calls that did it) - 1, the counter is that number, and
\* the counter never decreases.
C5_CountsDistinct ==
    /\ [](/\ \A t, u \in Fetched : t # u => got[t] # got[u]
          /\ {got[t] : t \in Fetched} = 0 .. (Cardinality(Fetched) - 1)
          /\ counter = Cardinality(Fetched))
    /\ [][counter' >= counter]_vars

C5_Witness ==
    /\ Fetched = Threads
    /\ counter = NThreads
    /\ got[1] = NThreads - 1

\* C10: the seed cache is initialised once: the entropy source is asked at
\* most once, the cached words never change once set, every call seeds its
\* generator from the cached words, and the call that got count k returns
\* from_seed(cached words) jumped by k.
C10_SeedCachedOnce ==
    /\ [](/\ samples <= 1
          /\ \A t \in Threads :
                pc[t] \in {"fetch", "jump", "done"} =>
                    /\ once = "complete"
                    /\ seen[t] = cache
                    /\ Len(cache) = 16)
    /\ [][/\ cache # <<>> => cache' = cache
          /\ \A t \in Threads :
                (pc[t] = "jump" /\ pc'[t] = "done") =>
                    ret'[t] = JumpOf(tKind, FromSeedOf(tKind, cache').rng,
                                     got[t]).rng]_vars

C10_Witness ==
    /\ \A t \in Threads : pc[t] = "done" /\ seen[t] = cache
    /\ samples = 1
    /\ ret[1] # ret[2]

\* ------------------------------------------------ properties (SpecPow)

\* The map with rows R does to every start state what n next_u64 calls do.
MapIsCalls(R, k, n) ==
    \A g \in PowStarts(k) :
        ApplyRows(R, StateBits(g)) = StateBits(NextTimes(k, g, n))

\* C9: for Xorshift128 and Xoroshiro128, jump(count) leaves the generator
\* in the state that count * 2^64 next_u64 calls would leave it in.  The
\* map pM of 2^pk calls is what the calls themselves do as long as they can
\* be made one by one, and jump(count) is count times the map of 2^64.
C9_JumpIs2Pow64Calls ==
    /\ pKind \in PowKinds /\ pk <= MaxDirect =>
           MapIsCalls(Rows(pM), pKind, Pow2(pk))
    /\ pJumps > 0 =>
           /\ pk = JumpLog2
           /\ StateBits(pJumped) = ApplyTimes(pM, StateBits(pS), pJumps)

C9_Witness ==
    /\ pKind = "Xoroshiro128" /\ pk = JumpLog2
    /\ pJumps = 2
    /\ Cardinality(StateBits(pS)) > 1
    /\ pJumped # pS
    /\ StateBits(pJumped) = Apply(pM, Apply(pM, StateBits(pS)))

\* ------------------------------------------------ properties (SpecOut)

\* The last operation was op, on a generator of type k.
Did(k, op) == oKind = k /\ oLast.op = op

\* The value returned is the one the type's test expects at this place of
\* the sequence, when the generator was seeded as the test seeds it.
AsReference ==
    (oSeed = TestSeeding(oKind) /\ oN <= Len(TestValsOf(oKind))) =>
        oLast.out = TestValsOf(oKind)[oN]

\* s1 ^ (s1 << 31)
X1024S1(w) == Xor(w, Shl(w, 31))

\* state[p'] as C11 gives it.
X1024Word(s0, s1) == Xor(Xor(Xor(s1, s0), Shr(s1, 11)), Shr(s0, 30))

X1024StepIs(pre, post, out, p1) ==
    /\ post.p = p1
    /\ post.state[p1] = X1024Word(pre.state[pre.p], X1024S1(pre.state[p1]))
    /\ \A j \in (0 .. 15) \ {p1} : post.state[j] = pre.state[j]
    /\ out = Mul(post.state[p1], X1024_MULT)

\* C11: Xorshift1024::next_u64 sets state[p'] (p' = (p + 1) mod 16) to
\* s1 ^ s0 ^ (s1 >> 11) ^ (s0 >> 30) with s0 = state[p] and
\* s1 = state[p'] ^ (state[p'] << 31), sets p to p', leaves the other 15
\* words alone and returns state[p'] * 1181783497276652981 mod 2^64; p stays
\* in 0..15; seeded with [seed; 16] it returns the test's t_vals.
C11_X1024NextU64 ==
    oKind = "Xorshift1024" =>
        /\ oRng.p \in 0 .. 15
        /\ oLast.op = "next_u64" =>
              /\ X1024StepIs(oLast.pre, oRng, oLast.out,
                             (oLast.pre.p + 1) % 16)
              /\ AsReference

C11_Witness ==
    /\ Did("Xorshift1024", "next_u64")
    /\ oLast.pre.p = 15 /\ oRng.p = 0
    /\ oSeed = TestSeeding(oKind) /\ oN = 48
    /\ oLast.out = X1024_T_VALS[48]

\* x rotated left by k, as a circular rotation of the 64 bits.
Circular(x, k) == {(i + k) % WordBits : i \in x}

XoroStepIs(s0, t, post) ==
    /\ post[0] = Xor(Xor(Circular(s0, 55), t), Shl(t, 14))
    /\ post[1] = Circular(t, 36)

\* C12: Xoroshiro128::next_u64 on [s0, s1] returns s0 + s1 mod 2^64 and
\* sets, with t = s1 ^ s0, state[0] = rotl(s0, 55) ^ t ^ (t << 14) and
\* state[1] = rotl(t, 36), rotl being a circular rotation; seeded with
\* [seed, seed] it returns the test's t_vals.
C12_XoroNextU64 ==
    Did("Xoroshiro128", "next_u64") =>
        /\ oLast.out = Add(oLast.pre[0], oLast.pre[1])
        /\ XoroStepIs(oLast.pre[0], Xor(oLast.pre[1], oLast.pre[0]), oRng)
        /\ AsReference

C12_Witness ==
    /\ Did("Xoroshiro128", "next_u64")
    /\ 63 \in oLast.pre[0] /\ 63 \in Xor(oLast.pre[1], oLast.pre[0])
    /\ oSeed = TestSeeding(oKind) /\ oN > 1
    /\ oLast.out = XORO_T_VALS[oN]

X128StepIs(a, b, t, post) ==
    /\ post[0] = b
    /\ post[1] = Xor(Xor(Xor(t, b), Shr(t, 18)), Shr(b, 5))

\* C13: Xorshift128::next_u64 on [a, b] returns a + b mod 2^64 and sets
\* state[0] = b and, with t = a ^ (a << 23), state[1] =
\* t ^ b ^ (t >> 18) ^ (b >> 5); seeded with [seed, seed] it returns the
\* test's t_vals.
C13_X128NextU64 ==
    Did("Xorshift128", "next_u64") =>
        /\ oLast.out = Add(oLast.pre[0], oLast.pre[1])
        /\ X128StepIs(oLast.pre[0], oLast.pre[1],
                      Xor(oLast.pre[0], Shl(oLast.pre[0], 23)), oRng)
        /\ AsReference

C13_Witness ==
    /\ Did("Xorshift128", "next_u64")
    /\ oLast.pre[0] # oLast.pre[1]
    /\ oRng[0] = oLast.pre[1]
    /\ oSeed = TestSeeding(oKind) /\ oN = 50
    /\ oLast.out = X128_T_VALS[50]

\* The natural number n (below 2^16) as a u64.
WordOf(n) == {b \in 0 .. 15 : (n \div Pow2(b)) % 2 = 1}

\* z1, z2 and mix of C14.
Mix1(z) == Mul(Xor(z, Shr(z, 30)), SM_MUL1)
Mix2(z1) == Mul(Xor(z1, Shr(z1, 27)), SM_MUL2)
Mix3(z2) == Xor(z2, Shr(z2, 31))

\* C14: SplitMix64's from_seed(w) and reseed(w) set the state to w; after n
\* calls of next_u64 / next_u32 the state is w + n * 0x9E3779B97F4A7C15
\* mod 2^64, and next_u64 returns the mix of the state it has set; seeded
\* with the test's seed it returns the test's t_vals.
C14_SplitMix64 ==
    oKind = "SplitMix64" =>
        /\ oRng = Add(oSeed, Mul(SM_GAMMA, WordOf(oN)))
        /\ oLast.op \in {"from_seed", "reseed"} => oRng = oSeed
        /\ oLast.op = "next_u64" =>
              /\ oRng = Add(oLast.pre, SM_GAMMA)
              /\ oLast.out = Mix3(Mix2(Mix1(oRng)))
              /\ AsReference

C14_Witness ==
    /\ Did("SplitMix64", "next_u64")
    /\ oSeed = SM_TEST_SEED /\ oN > 1
    /\ oLast.out = SM_T_VALS[oN]
    /\ 63 \in oLast.pre
    /\ oRng = Add(SM_TEST_SEED, Mul(SM_GAMMA, WordOf(oN)))

\* C15: next_u32 returns the low 32 bits of what next_u64 returns from the
\* same state and leaves the state next_u64 leaves: one step.
C15_NextU32 ==
    oLast.op = "next_u32" =>
        /\ oLast.out = OutOf(oKind, oLast.pre) \cap (0 .. 31)
        /\ oRng = NextOf(oKind, oLast.pre)

C15_Witness ==
    /\ Did("SplitMix64", "next_u32")
    /\ oLast.out # OutOf(oKind, oLast.pre)
    /\ oLast.out # {}
    /\ oRng # oLast.pre

\* The words of a generator of type b, in the order of the seed.
MadeWords(b, g) ==
    IF b = "Xorshift1024" THEN [i \in 1 .. 16 |-> g.state[i - 1]]
    ELSE [i \in 1 .. 2 |-> g[i - 1]]

\* C16: Rand::rand for Xorshift128, Xoroshiro128 (N = 2) and Xorshift1024
\* (N = 16) draws N consecutive next_u64 values of the source, in order, as
\* seed words 0..N-1; the generator made is in the state from_seed of those
\* words gives (they are its state words, p = 0), and the source is left N
\* steps on.
C16_RandDrawsSeed ==
    oLast.op = "rand" =>
        /\ Len(oLast.key) = StateWords(oLast.madeKind)
        /\ \A i \in 1 .. Len(oLast.key) :
              oLast.key[i] = OutOf(oKind, NextTimes(oKind, oLast.pre, i - 1))
        /\ MadeWords(oLast.madeKind, oLast.made) = oLast.key
        /\ oLast.madeKind = "Xorshift1024" => oLast.made.p = 0
        /\ oLast.made = FromSeedOf(oLast.madeKind, oLast.key).rng
        /\ oRng = NextTimes(oKind, oLast.pre, StateWords(oLast.madeKind))

C16_Witness ==
    /\ Did("SplitMix64", "rand")
    /\ oLast.madeKind = "Xorshift1024"
    /\ oN = 16 + MaxWarm
    /\ oLast.made.state[15] = OutOf(oKind, NextTimes(oKind, oLast.pre, 15))
    /\ oLast.made.state[0] # oLast.made.state[15]

====
